---- MODULE Spec2Model ----
(***************************************************************************)
(* The news-summary cache of time-demo (src/main.go).                      *)
(*                                                                         *)
(* Spec      getLatestNewsSummary called by concurrent request goroutines: *)
(*           summaryMutex (sync.RWMutex), the four cache variables, a      *)
(*           clock, and the call to the fetcher.  The fetcher is taken at  *)
(*           its boundary: a call returns one of the values the return     *)
(*           statements of fetchAndSummarizeNews produce.                  *)
(* SpecFetch one call of fetchAndSummarizeNews: one goroutine per feed,    *)
(*           finishing in any order, each succeeding or failing, then the  *)
(*           combination of the results.                                   *)
(* SpecSteps getLatestNewsSummary with each write of the cache variables   *)
(*           and each read of the final return as a step of its own.       *)
(* SpecHandler  SpecSteps and the rest of timeHandler, which picks the     *)
(*           markup for the response.                                      *)
(* SpecFair  Spec under fair scheduling.                                   *)
(* SpecAge   SpecSteps with the start time of every call recorded.         *)
(***************************************************************************)
EXTENDS Integers, Sequences, FiniteSets

\* ------------------------------------------------------------------ bounds
NumCallers == 2     \* request goroutines that may be inside getLatestNewsSummary
MaxTime == 3        \* the clock runs from 0 to MaxTime
NumFeeds == 3       \* length of the rssFeeds list in the model
MaxItems == 4       \* a parsed feed holds 0..MaxItems items

\* -------------------------------------------------------- program constants
cacheTTL == 2           \* src/main.go:20 (one hour there; two clock ticks here)
maxItemsPerFeed == 3    \* src/main.go:19

Callers == 1..NumCallers
\* The zero time.Time of an unset lastSummaryUpdateTime lies more than a
\* cacheTTL before the start of the process.
ZeroTime == 0 - cacheTTL

\* History only: no such instant yet.
NoTime == ZeroTime - 1

NoErr == "nil"
ErrFetch == "failed to fetch any RSS feeds"

\* Markdown texts a successful fetch can deliver (never the empty string: a
\* successful result holds at least one section or one failure note).
Contents == {"A", "B"}

\* What a call of fetchAndSummarizeNews can return to getLatestNewsSummary, by
\* its return statements: ("", error) at line 118, (text, nil) at line 121.
\* When the body takes the return of line 118 is settled under SpecFetch.
FetcherResults == {<<md, NoErr>> : md \in Contents} \cup {<<"", ErrFetch>>}

\* markdown.Render of the parsed text: the empty document renders to the
\* empty string, any other text to its markup.
Render(md) == IF md = "" THEN "" ELSE "<html>" \o md \o "</html>"

VARIABLES
    now,                    \* the wall clock read by time.Since / time.Now
    cachedSummaryMD,
    cachedSummaryHTML,
    lastSummaryUpdateTime,
    summaryFetchError,
    writer,                 \* summaryMutex: the goroutines (at most one) between Lock being granted its turn and Unlock
    readers,                \* summaryMutex: the goroutines holding the read lock
    pc,                     \* where each caller is in getLatestNewsSummary
    needsUpdate,            \* local of each call (line 129)
    ret,                    \* the triple the caller's last call returned
    call,                   \* history of each caller's call in progress
    hist,                   \* history of the refresh attempts
    feedState,              \* fetchAndSummarizeNews: each feed's goroutine, "running", "ok" or "failed"
    feedItems,              \* fetchAndSummarizeNews: number of items the parsed feed holds
    results,                \* fetchAndSummarizeNews: the results map, feed -> section text
    fetchErrors,            \* fetchAndSummarizeNews: the collected failure messages
    fetchRet,               \* fetchAndSummarizeNews: what the call returned
    finished,               \* history: the feeds in the order their goroutines finished
    summaryMD,              \* local of each call (line 137)
    err,                    \* local of each call (line 137)
    summaryHTML,            \* local of each call (line 153)
    errNonNil,              \* outcome of each call's test at line 169
    snap,                   \* history: the cache triple when the call's final read lock was granted
    startedAt,              \* history (SpecAge): the clock when the call in progress started
    page                    \* timeHandler: the markup embedded in the caller's response

cacheVars == <<cachedSummaryMD, cachedSummaryHTML, lastSummaryUpdateTime, summaryFetchError>>
lockVars == <<writer, readers>>
summaryVars == <<now, cacheVars, lockVars, pc, needsUpdate, ret, call, hist>>
fetchVars == <<feedState, feedItems, results, fetchErrors, fetchRet, finished>>
stepVars == <<summaryMD, err, summaryHTML, errNonNil, snap, startedAt>>
vars == <<summaryVars, fetchVars, stepVars, page>>

NoRet == <<"", "", "none">>

\* timeHandler has not written a response.
NoPage == "none"

\* History of the refresh attempts completed so far.
NoHist ==
    [last |-> "none",       \* outcome of the last completed attempt: "none", "ok", "fail"
     done |-> NoTime,       \* clock when the last attempt completed
     okTrigger |-> NoTime,  \* clock at which the call of the last successful attempt invoked the fetcher
     goodMD |-> "",         \* text delivered by the last successful attempt
     failErr |-> NoErr,     \* error delivered by the last failed attempt
     count |-> 0,           \* number of successful refreshes completed: the latest one's number
     stored |-> 0]          \* number of the refresh whose text cachedSummaryMD holds, 0: none

\* History of a call; stale: the snapshot needs a refresh when the call starts,
\* busy: a fetcher invocation is in progress when the call starts.
NewCall(stale, busy, late) ==
    [staleAtStart |-> stale,
     refreshed |-> FALSE,       \* a refresh attempt completed since the call started
     fetchSeen |-> busy,        \* a fetcher invocation was in progress at or after the start
     lateStart |-> late,        \* the call started later than okTrigger + cacheTTL after a success, no attempt since
     lateCheck |-> FALSE,       \* line 129 read a clock >= done + cacheTTL after a success, no attempt since
     fetched |-> FALSE,         \* this call invoked the fetcher
     fetchAt |-> NoTime,        \* clock read by line 135 when it led to the invocation in progress
     fetchAfterRefresh |-> FALSE] \* an attempt had completed between the start and that invocation

NoCall == NewCall(FALSE, FALSE, FALSE)

Fetching(c) == pc[c] = "fetching"


\* ------------------------------------------- fetchAndSummarizeNews
\* The rssFeeds list, in its configured order; a feed is named by its index.
Feeds == 1..NumFeeds

\* A text is a sequence of lines; the empty text is the empty sequence.
Line(kind, f, i) == [kind |-> kind, feed |-> f, item |-> i]

NoSection == <<>>       \* the results map has no entry for the feed
NotReturned == [returned |-> FALSE, md |-> <<>>, err |-> NoErr]

Min(a, b) == IF a < b THEN a ELSE b

\* Lines 75-89: the section of a feed that was parsed with n items: the
\* heading, at most maxItemsPerFeed items, and a blank line.
Section(f, n) ==
    <<Line("heading", f, 0)>>
    \o [i \in 1..Min(n, maxItemsPerFeed) |-> Line("item", f, i)]
    \o <<Line("blank", f, 0)>>

\* Line 70: the message recorded for a feed that could not be fetched.
FailureNote(f) == Line("failed", f, 0)

\* Variant: the sections are written in the order the goroutines finished
\* (k counts through that order).
RECURSIVE SectionsAsFinished(_, _)
SectionsAsFinished(res, k) ==
    IF k > Len(finished) THEN <<>>
    ELSE (IF res[finished[k]] # NoSection THEN res[finished[k]] ELSE <<>>)
         \o SectionsAsFinished(res, k + 1)

\* Lines 101-106: the sections of the results map in the order of rssFeeds.
RECURSIVE Sections(_, _)
Sections(res, f) ==
    IF f > NumFeeds THEN <<>>
    ELSE (IF res[f] # NoSection THEN res[f] ELSE <<>>) \o Sections(res, f + 1)

\* Lines 109-114: the failure block appended when any feed failed.
ErrorBlock(errs) ==
    IF Len(errs) > 0
    THEN <<Line("rule", 0, 0), Line("errors", 0, 0)>> \o errs
    ELSE <<>>

\* Lines 101-114: finalSummary as it stands before the test of line 116.
FinalSummary(res, errs) == Sections(res, 1) \o ErrorBlock(errs)

\* Variant: any failed feed makes the whole call fail.
FetchResultFailFast(res, errs) ==
    IF Len(errs) > 0
    THEN [returned |-> TRUE, md |-> <<>>, err |-> ErrFetch]
    ELSE [returned |-> TRUE, md |-> FinalSummary(res, errs), err |-> NoErr]

\* Lines 116-121: the value returned.
FetchResult(res, errs) ==
    IF Len(FinalSummary(res, errs)) = 0 /\ Len(errs) > 0
    THEN [returned |-> TRUE, md |-> <<>>, err |-> ErrFetch]
    ELSE [returned |-> TRUE, md |-> FinalSummary(res, errs), err |-> NoErr]

\* ------------------------------------------- getLatestNewsSummary
\* Variants of the staleness test: one tick early, and > in place of >=.
NeedsUpdateEarly(t) ==
    (t - lastSummaryUpdateTime >= cacheTTL - 1) \/ cachedSummaryMD = ""

NeedsUpdateStrict(t) ==
    (t - lastSummaryUpdateTime > cacheTTL) \/ cachedSummaryMD = ""

\* Variant: the age of the snapshot is ignored, only an empty cache refreshes.
NeedsUpdateOnlyWhenEmpty(t) == cachedSummaryMD = ""

\* Variant: no staleness test, every call refreshes.
NeedsUpdateAlways(t) == TRUE

\* time.Since(lastSummaryUpdateTime) >= cacheTTL || cachedSummaryMD == ""
NeedsUpdate(t) ==
    (t - lastSummaryUpdateTime >= cacheTTL) \/ cachedSummaryMD = ""

\* Variant: readers are admitted while a writer holds the lock.
CanRLockDespiteWriter == TRUE

\* RLock succeeds when no writer holds the lock or has announced itself.
CanRLock == writer = {}

\* Variant: writers do not exclude each other.
CanLockDespiteWriter == TRUE

\* Lock: writers exclude each other (the inner mutex of sync.RWMutex) ...
CanLock == writer = {}

\* Variant: Lock() returns while readers still hold the read lock.
CanEnterWriteDespiteReaders == TRUE

\* ... and the announced writer proceeds once the active readers have left.
CanEnterWrite == readers = {}

\* Variant: the read lock is not released.
RUnlockMissing(c) == readers

\* Lines 130, 167: summaryMutex.RUnlock() by caller c.
AfterRUnlock(c) == readers \ {c}

\* Variants: the cache is cleared on a failed fetch (lines 143-144, commented
\* out in the source); the error of a failed fetch is not stored; the time
\* stamp is written on success only.
MDClearedOnError(md, e) == IF e # NoErr THEN "" ELSE md
ErrorNotStored(md, e) == NoErr
UpdateTimeOnSuccessOnly(e) == IF e # NoErr THEN lastSummaryUpdateTime ELSE now

\* Variant: a failed fetch resets the time stamp to the zero time.Time.
UpdateTimeResetOnFailure(e) == IF e # NoErr THEN ZeroTime ELSE now

\* Variant: line 158 is missing, a success leaves the stored error in place.
ErrorKeptOnSuccess(md, e) == IF e # NoErr THEN e ELSE summaryFetchError

\* Variant: line 156 runs whatever the fetcher returned.
MDStoredRegardless(md, e) == md

\* Variant: line 157 is missing, the rendered text is never stored.
HTMLNotStored(md, e) == cachedSummaryHTML

\* Variant: the rendered text is dropped on a failed fetch.
HTMLClearedOnError(md, e) == IF e # NoErr THEN "" ELSE Render(md)

\* Lines 138-159: the cache variables after the fetcher returned (md, e).
MDAfterFetch(md, e) == IF e # NoErr THEN cachedSummaryMD ELSE md
HTMLAfterFetch(md, e) == IF e # NoErr THEN cachedSummaryHTML ELSE Render(md)
ErrorAfterFetch(md, e) == IF e # NoErr THEN e ELSE NoErr

\* Line 160: the time stamp is written after either outcome.
UpdateTimeAfterFetch(e) == now

\* Lines 169-174: the triple a call returns.
ReturnValue == <<cachedSummaryMD, cachedSummaryHTML, summaryFetchError>>

Init ==
    /\ now = 0
    /\ cachedSummaryMD = ""
    /\ cachedSummaryHTML = ""
    /\ lastSummaryUpdateTime = ZeroTime
    /\ summaryFetchError = NoErr
    /\ writer = {}
    /\ readers = {}
    /\ pc = [c \in Callers |-> "idle"]
    /\ needsUpdate = [c \in Callers |-> FALSE]
    /\ ret = [c \in Callers |-> NoRet]
    /\ call = [c \in Callers |-> NoCall]
    /\ hist = NoHist
    /\ feedState = [f \in Feeds |-> "running"]
    /\ feedItems = [f \in Feeds |-> 0]
    /\ results = [f \in Feeds |-> NoSection]
    /\ fetchErrors = <<>>
    /\ fetchRet = NotReturned
    /\ finished = <<>>
    /\ summaryMD = [c \in Callers |-> ""]
    /\ err = [c \in Callers |-> NoErr]
    /\ summaryHTML = [c \in Callers |-> ""]
    /\ errNonNil = [c \in Callers |-> FALSE]
    /\ snap = [c \in Callers |-> NoRet]
    /\ startedAt = [c \in Callers |-> NoTime]
    /\ page = [c \in Callers |-> NoPage]

\* A request goroutine enters getLatestNewsSummary (line 126).
Call(c) ==
    /\ pc[c] = "idle"
    /\ pc' = [pc EXCEPT ![c] = "rlock"]
    /\ ret' = [ret EXCEPT ![c] = NoRet]
    /\ call' = [call EXCEPT ![c] =
                   NewCall(NeedsUpdate(now),
                           \E d \in Callers : Fetching(d),
                           hist.last = "ok" /\ now > hist.okTrigger + cacheTTL)]
    /\ UNCHANGED <<fetchVars, stepVars, page, now, cacheVars, lockVars, needsUpdate, hist>>

\* Line 127: summaryMutex.RLock().
RLock(c) ==
    /\ pc[c] = "rlock"
    /\ CanRLock
    /\ readers' = readers \cup {c}
    /\ pc' = [pc EXCEPT ![c] = "check"]
    /\ UNCHANGED <<fetchVars, stepVars, page, now, cacheVars, writer, needsUpdate, ret, call, hist>>

\* Lines 129-132: the staleness check, RUnlock, and the branch.
Check(c) ==
    /\ pc[c] = "check"
    /\ needsUpdate' = [needsUpdate EXCEPT ![c] = NeedsUpdate(now)]
    /\ readers' = AfterRUnlock(c)
    /\ pc' = [pc EXCEPT ![c] = IF NeedsUpdate(now) THEN "lock" ELSE "rlock2"]
    /\ call' = [call EXCEPT ![c].lateCheck =
                   (hist.last = "ok" /\ now >= hist.done + cacheTTL)]
    /\ UNCHANGED <<fetchVars, stepVars, page, now, cacheVars, writer, ret, hist>>

\* Line 133: summaryMutex.Lock() is called; from here new readers wait.
LockCall(c) ==
    /\ pc[c] = "lock"
    /\ CanLock
    /\ writer' = {c}
    /\ pc' = [pc EXCEPT ![c] = "lockwait"]
    /\ UNCHANGED <<fetchVars, stepVars, page, now, cacheVars, readers, needsUpdate, ret, call, hist>>

\* Line 133: Lock() returns once the active readers have left.
LockAcquire(c) ==
    /\ pc[c] = "lockwait"
    /\ CanEnterWrite
    /\ pc' = [pc EXCEPT ![c] = "recheck"]
    /\ UNCHANGED <<fetchVars, stepVars, page, now, cacheVars, lockVars, needsUpdate, ret, call, hist>>

\* Lines 135-137: the re-check under the write lock; when the snapshot is
\* still stale the fetcher is invoked.
Recheck(c) ==
    /\ pc[c] = "recheck"
    /\ IF NeedsUpdate(now)
       THEN /\ pc' = [pc EXCEPT ![c] = "fetching"]
            /\ call' = [d \in Callers |->
                          IF d = c
                          THEN [call[c] EXCEPT !.fetchAt = now,
                                               !.fetched = TRUE,
                                               !.fetchSeen = TRUE,
                                               !.fetchAfterRefresh = call[c].refreshed]
                          ELSE IF pc[d] = "idle" THEN call[d]
                          ELSE [call[d] EXCEPT !.fetchSeen = TRUE]]
       ELSE /\ pc' = [pc EXCEPT ![c] = "unlock"]
            /\ call' = call
    /\ UNCHANGED <<fetchVars, stepVars, page, now, cacheVars, lockVars, needsUpdate, ret, hist>>

\* History: the refresh number of the text in the cache after a refresh whose
\* fetcher delivered text good (the empty string: none) and that left text
\* kept in cachedSummaryMD.
StoredAfter(good, kept) ==
    IF good # "" /\ kept = good THEN hist.count + 1
    ELSE IF kept = cachedSummaryMD THEN hist.stored
    ELSE 0

\* Lines 137-160: fetchAndSummarizeNews returns (md, e) and the outcome is
\* stored in the cache variables, all under the write lock.
FetchReturn(c) ==
    /\ pc[c] = "fetching"
    /\ \E r \in FetcherResults :
          LET md == r[1]
              e == r[2]
          IN  /\ cachedSummaryMD' = MDAfterFetch(md, e)
              /\ cachedSummaryHTML' = HTMLAfterFetch(md, e)
              /\ summaryFetchError' = ErrorAfterFetch(md, e)
              /\ lastSummaryUpdateTime' = UpdateTimeAfterFetch(e)
              /\ hist' = IF e = NoErr
                         THEN [hist EXCEPT !.last = "ok", !.done = now,
                                           !.okTrigger = call[c].fetchAt, !.goodMD = md,
                                           !.count = hist.count + 1,
                                           !.stored = StoredAfter(md, MDAfterFetch(md, e))]
                         ELSE [hist EXCEPT !.last = "fail", !.done = now, !.failErr = e,
                                           !.stored = StoredAfter("", MDAfterFetch(md, e))]
    /\ pc' = [pc EXCEPT ![c] = "unlock"]
    /\ call' = [d \in Callers |->
                   IF pc[d] = "idle" THEN call[d]
                   ELSE [call[d] EXCEPT !.refreshed = TRUE,
                                        !.lateStart = FALSE,
                                        !.lateCheck = FALSE,
                                        !.fetchAt = NoTime,
                                        !.fetchAfterRefresh = FALSE]]
    /\ UNCHANGED <<fetchVars, stepVars, page, now, lockVars, needsUpdate, ret>>

\* Line 162: summaryMutex.Unlock().
Unlock(c) ==
    /\ pc[c] = "unlock"
    /\ writer' = {}
    /\ pc' = [pc EXCEPT ![c] = "rlock2"]
    /\ UNCHANGED <<fetchVars, stepVars, page, now, cacheVars, readers, needsUpdate, ret, call, hist>>

\* Line 166: summaryMutex.RLock() before the final read.
RLock2(c) ==
    /\ pc[c] = "rlock2"
    /\ CanRLock
    /\ readers' = readers \cup {c}
    /\ pc' = [pc EXCEPT ![c] = "read"]
    /\ UNCHANGED <<fetchVars, stepVars, page, now, cacheVars, writer, needsUpdate, ret, call, hist>>

\* Lines 167-174: the final read, the return, and the deferred RUnlock.
Return(c) ==
    /\ pc[c] = "read"
    /\ ret' = [ret EXCEPT ![c] = ReturnValue]
    /\ readers' = AfterRUnlock(c)
    /\ pc' = [pc EXCEPT ![c] = "idle"]
    /\ needsUpdate' = [needsUpdate EXCEPT ![c] = FALSE]
    /\ call' = [call EXCEPT ![c] = NoCall]
    /\ UNCHANGED <<fetchVars, stepVars, page, now, cacheVars, writer, hist>>

\* Time passes.
Tick ==
    /\ now < MaxTime
    /\ now' = now + 1
    /\ UNCHANGED <<fetchVars, stepVars, page, cacheVars, lockVars, pc, needsUpdate, ret, call, hist>>

Next ==
    \/ \E c \in Callers : Call(c)
    \/ \E c \in Callers : RLock(c)
    \/ \E c \in Callers : Check(c)
    \/ \E c \in Callers : LockCall(c)
    \/ \E c \in Callers : LockAcquire(c)
    \/ \E c \in Callers : Recheck(c)
    \/ \E c \in Callers : FetchReturn(c)
    \/ \E c \in Callers : Unlock(c)
    \/ \E c \in Callers : RLock2(c)
    \/ \E c \in Callers : Return(c)
    \/ Tick

Spec == Init /\ [][Next]_vars

\* ------------------------------------------------------------------------
\* SpecSteps: the same function with every write of lines 137-160 and every
\* read of lines 166-174 as a step of its own.  The histories call and hist
\* are not recorded here.

\* Lines 178-182, 126: a request arrives, its handler has written nothing
\* yet and enters getLatestNewsSummary; as Call without the history.
Enter(c) ==
    /\ pc[c] = "idle"
    /\ pc' = [pc EXCEPT ![c] = "rlock"]
    /\ ret' = [ret EXCEPT ![c] = NoRet]
    /\ snap' = [snap EXCEPT ![c] = NoRet]
    /\ page' = [page EXCEPT ![c] = NoPage]
    /\ UNCHANGED <<fetchVars, now, cacheVars, lockVars, needsUpdate, call, hist,
                   summaryMD, err, summaryHTML, errNonNil, startedAt>>

\* Lines 129-132, as Check without the history.
CheckStep(c) ==
    /\ pc[c] = "check"
    /\ needsUpdate' = [needsUpdate EXCEPT ![c] = NeedsUpdate(now)]
    /\ readers' = AfterRUnlock(c)
    /\ pc' = [pc EXCEPT ![c] = IF NeedsUpdate(now) THEN "lock" ELSE "rlock2"]
    /\ UNCHANGED <<fetchVars, stepVars, page, now, cacheVars, writer, ret, call, hist>>

\* Lines 135-137, as Recheck without the history.
RecheckStep(c) ==
    /\ pc[c] = "recheck"
    /\ pc' = [pc EXCEPT ![c] = IF NeedsUpdate(now) THEN "fetching" ELSE "unlock"]
    /\ UNCHANGED <<fetchVars, stepVars, page, now, cacheVars, lockVars, needsUpdate,
                   ret, call, hist>>

\* Line 137 returns (md, e); lines 147-153 render the text in locals.
FetchDone(c) ==
    /\ pc[c] = "fetching"
    /\ \E r \in FetcherResults :
          /\ summaryMD' = [summaryMD EXCEPT ![c] = r[1]]
          /\ err' = [err EXCEPT ![c] = r[2]]
          /\ summaryHTML' = [summaryHTML EXCEPT ![c] =
                                IF r[2] # NoErr THEN "" ELSE Render(r[1])]
          /\ pc' = [pc EXCEPT ![c] = IF r[2] # NoErr THEN "storeErr" ELSE "storeMD"]
    /\ UNCHANGED <<fetchVars, page, now, cacheVars, lockVars, needsUpdate, ret,
                   call, hist, errNonNil, snap, startedAt>>

\* Line 141: summaryFetchError = err.
StoreError(c) ==
    /\ pc[c] = "storeErr"
    /\ summaryFetchError' = err[c]
    /\ pc' = [pc EXCEPT ![c] = "stamp"]
    /\ UNCHANGED <<fetchVars, stepVars, page, now, cachedSummaryMD, cachedSummaryHTML,
                   lastSummaryUpdateTime, lockVars, needsUpdate, ret, call, hist>>

\* Line 156: cachedSummaryMD = summaryMD.
StoreMD(c) ==
    /\ pc[c] = "storeMD"
    /\ cachedSummaryMD' = summaryMD[c]
    /\ pc' = [pc EXCEPT ![c] = "storeHTML"]
    /\ UNCHANGED <<fetchVars, stepVars, page, now, cachedSummaryHTML, summaryFetchError,
                   lastSummaryUpdateTime, lockVars, needsUpdate, ret, call, hist>>

\* Line 157: cachedSummaryHTML = summaryHTML.
StoreHTML(c) ==
    /\ pc[c] = "storeHTML"
    /\ cachedSummaryHTML' = summaryHTML[c]
    /\ pc' = [pc EXCEPT ![c] = "clearErr"]
    /\ UNCHANGED <<fetchVars, stepVars, page, now, cachedSummaryMD, summaryFetchError,
                   lastSummaryUpdateTime, lockVars, needsUpdate, ret, call, hist>>

\* Line 158: summaryFetchError = nil.
ClearError(c) ==
    /\ pc[c] = "clearErr"
    /\ summaryFetchError' = NoErr
    /\ pc' = [pc EXCEPT ![c] = "stamp"]
    /\ UNCHANGED <<fetchVars, stepVars, page, now, cachedSummaryMD, cachedSummaryHTML,
                   lastSummaryUpdateTime, lockVars, needsUpdate, ret, call, hist>>

\* Line 160: lastSummaryUpdateTime = time.Now(); the locals go out of scope.
Stamp(c) ==
    /\ pc[c] = "stamp"
    /\ lastSummaryUpdateTime' = now
    /\ pc' = [pc EXCEPT ![c] = "unlock"]
    /\ summaryMD' = [summaryMD EXCEPT ![c] = ""]
    /\ err' = [err EXCEPT ![c] = NoErr]
    /\ summaryHTML' = [summaryHTML EXCEPT ![c] = ""]
    /\ UNCHANGED <<fetchVars, page, now, cachedSummaryMD, cachedSummaryHTML,
                   summaryFetchError, lockVars, needsUpdate, ret, call, hist,
                   errNonNil, snap, startedAt>>

\* Line 166: summaryMutex.RLock() before the final read; snap records what
\* the cache variables hold at this instant.
AcquireRead(c) ==
    /\ pc[c] = "rlock2"
    /\ CanRLock
    /\ readers' = readers \cup {c}
    /\ snap' = [snap EXCEPT ![c] = ReturnValue]
    /\ pc' = [pc EXCEPT ![c] = "test"]
    /\ UNCHANGED <<fetchVars, page, now, cacheVars, writer, needsUpdate, ret, call,
                   hist, summaryMD, err, summaryHTML, errNonNil, startedAt>>

\* Line 169: if summaryFetchError != nil.
TestError(c) ==
    /\ pc[c] = "test"
    /\ errNonNil' = [errNonNil EXCEPT ![c] = (summaryFetchError # NoErr)]
    /\ pc' = [pc EXCEPT ![c] = "readMD"]
    /\ UNCHANGED <<fetchVars, page, now, cacheVars, lockVars, needsUpdate, ret, call,
                   hist, summaryMD, err, summaryHTML, snap, startedAt>>

\* Lines 171, 174: the first operand of the return statement is read.
ReadMD(c) ==
    /\ pc[c] = "readMD"
    /\ ret' = [ret EXCEPT ![c][1] = cachedSummaryMD]
    /\ pc' = [pc EXCEPT ![c] = "readHTML"]
    /\ UNCHANGED <<fetchVars, stepVars, page, now, cacheVars, lockVars, needsUpdate,
                   call, hist>>

\* Lines 171, 174: the second operand of the return statement is read.
ReadHTML(c) ==
    /\ pc[c] = "readHTML"
    /\ ret' = [ret EXCEPT ![c][2] = cachedSummaryHTML]
    /\ pc' = [pc EXCEPT ![c] = "readErr"]
    /\ UNCHANGED <<fetchVars, stepVars, page, now, cacheVars, lockVars, needsUpdate,
                   call, hist>>

\* Lines 171, 174: the third operand (summaryFetchError at line 171, nil at
\* line 174), the return, and the deferred RUnlock.
ReadErrorReturn(c) ==
    /\ pc[c] = "readErr"
    /\ ret' = [ret EXCEPT ![c][3] = IF errNonNil[c] THEN summaryFetchError ELSE NoErr]
    /\ readers' = AfterRUnlock(c)
    /\ pc' = [pc EXCEPT ![c] = "idle"]
    /\ needsUpdate' = [needsUpdate EXCEPT ![c] = FALSE]
    /\ errNonNil' = [errNonNil EXCEPT ![c] = FALSE]
    /\ startedAt' = [startedAt EXCEPT ![c] = NoTime]
    /\ UNCHANGED <<fetchVars, page, now, cacheVars, writer, call, hist, summaryMD,
                   err, summaryHTML, snap>>

NextSteps ==
    \/ \E c \in Callers : Enter(c)
    \/ \E c \in Callers : RLock(c)
    \/ \E c \in Callers : CheckStep(c)
    \/ \E c \in Callers : LockCall(c)
    \/ \E c \in Callers : LockAcquire(c)
    \/ \E c \in Callers : RecheckStep(c)
    \/ \E c \in Callers : FetchDone(c)
    \/ \E c \in Callers : StoreError(c)
    \/ \E c \in Callers : StoreMD(c)
    \/ \E c \in Callers : StoreHTML(c)
    \/ \E c \in Callers : ClearError(c)
    \/ \E c \in Callers : Stamp(c)
    \/ \E c \in Callers : Unlock(c)
    \/ \E c \in Callers : AcquireRead(c)
    \/ \E c \in Callers : TestError(c)
    \/ \E c \in Callers : ReadMD(c)
    \/ \E c \in Callers : ReadHTML(c)
    \/ \E c \in Callers : ReadErrorReturn(c)
    \/ Tick

SpecSteps == Init /\ [][NextSteps]_vars

\* ------------------------------------------------------------------------
\* SpecAge: SpecSteps with the start time of every call recorded.

\* Line 126, as Enter, recording the clock at the start of the call.
EnterAt(c) ==
    /\ pc[c] = "idle"
    /\ pc' = [pc EXCEPT ![c] = "rlock"]
    /\ ret' = [ret EXCEPT ![c] = NoRet]
    /\ snap' = [snap EXCEPT ![c] = NoRet]
    /\ startedAt' = [startedAt EXCEPT ![c] = now]
    /\ UNCHANGED <<fetchVars, page, now, cacheVars, lockVars, needsUpdate, call, hist,
                   summaryMD, err, summaryHTML, errNonNil>>

NextAge ==
    \/ \E c \in Callers : EnterAt(c)
    \/ \E c \in Callers : RLock(c)
    \/ \E c \in Callers : CheckStep(c)
    \/ \E c \in Callers : LockCall(c)
    \/ \E c \in Callers : LockAcquire(c)
    \/ \E c \in Callers : RecheckStep(c)
    \/ \E c \in Callers : FetchDone(c)
    \/ \E c \in Callers : StoreError(c)
    \/ \E c \in Callers : StoreMD(c)
    \/ \E c \in Callers : StoreHTML(c)
    \/ \E c \in Callers : ClearError(c)
    \/ \E c \in Callers : Stamp(c)
    \/ \E c \in Callers : Unlock(c)
    \/ \E c \in Callers : AcquireRead(c)
    \/ \E c \in Callers : TestError(c)
    \/ \E c \in Callers : ReadMD(c)
    \/ \E c \in Callers : ReadHTML(c)
    \/ \E c \in Callers : ReadErrorReturn(c)
    \/ Tick

SpecAge == Init /\ [][NextAge]_vars

\* ------------------------------------------------------------------------
\* SpecHandler: SpecSteps together with the rest of timeHandler, which embeds
\* a markup in the response once getLatestNewsSummary has returned.

\* Line 189: the fixed notice.
Notice == "<p><em>Could not retrieve news summary. Please try again later.</em></p>"

\* Variant: the notice replaces the markup whenever an error is returned.
NoticeOnAnyError(html, e) == IF e # NoErr THEN Notice ELSE html

\* Lines 183-191: summaryHTML as it is handed to Fprintf at line 274, from
\* the markup and the error that line 182 received.
EmbeddedHTML(html, e) ==
    IF e # NoErr
    THEN (IF html = "" THEN Notice ELSE html)
    ELSE html

\* Lines 183-274: the handler of caller c writes its response.
Respond(c) ==
    /\ pc[c] = "idle"
    /\ ret[c] # NoRet
    /\ page[c] = NoPage
    /\ page' = [page EXCEPT ![c] = EmbeddedHTML(ret[c][2], ret[c][3])]
    /\ UNCHANGED <<summaryVars, fetchVars, stepVars>>

NextHandler ==
    \/ \E c \in Callers : Enter(c)
    \/ \E c \in Callers : RLock(c)
    \/ \E c \in Callers : CheckStep(c)
    \/ \E c \in Callers : LockCall(c)
    \/ \E c \in Callers : LockAcquire(c)
    \/ \E c \in Callers : RecheckStep(c)
    \/ \E c \in Callers : FetchDone(c)
    \/ \E c \in Callers : StoreError(c)
    \/ \E c \in Callers : StoreMD(c)
    \/ \E c \in Callers : StoreHTML(c)
    \/ \E c \in Callers : ClearError(c)
    \/ \E c \in Callers : Stamp(c)
    \/ \E c \in Callers : Unlock(c)
    \/ \E c \in Callers : AcquireRead(c)
    \/ \E c \in Callers : TestError(c)
    \/ \E c \in Callers : ReadMD(c)
    \/ \E c \in Callers : ReadHTML(c)
    \/ \E c \in Callers : ReadErrorReturn(c)
    \/ \E c \in Callers : Respond(c)
    \/ Tick

SpecHandler == Init /\ [][NextHandler]_vars

\* ------------------------------------------------------------------------
\* SpecFair: Spec under fair scheduling.  A goroutine that can take its next
\* step takes it; fetchAndSummarizeNews terminates (FetchReturn); sync.RWMutex
\* hands the lock to a goroutine that waits for it (a reader blocked by a
\* writer is admitted when that writer unlocks, a writer blocked on the inner
\* mutex gets it handed over), hence strong fairness for the lock operations.
\* Nothing obliges a new request to arrive (Call) or the clock to advance.
Fairness ==
    \A c \in Callers :
        /\ WF_vars(Check(c) \/ LockAcquire(c) \/ Recheck(c) \/ FetchReturn(c)
                    \/ Unlock(c) \/ Return(c))
        /\ SF_vars(RLock(c) \/ LockCall(c) \/ RLock2(c))

SpecFair == Spec /\ Fairness

\* Lines 66, 75-93: the goroutine of feed f parses the feed, which holds n
\* items, and stores its section under resultsMutex.
FeedOK(f, n) ==
    /\ fetchRet = NotReturned
    /\ feedState[f] = "running"
    /\ feedState' = [feedState EXCEPT ![f] = "ok"]
    /\ feedItems' = [feedItems EXCEPT ![f] = n]
    /\ results' = [results EXCEPT ![f] = Section(f, n)]
    /\ finished' = Append(finished, f)
    /\ UNCHANGED <<summaryVars, stepVars, page, fetchErrors, fetchRet>>

\* Lines 66-72: the goroutine of feed f fails and appends its message under
\* resultsMutex.
FeedFail(f) ==
    /\ fetchRet = NotReturned
    /\ feedState[f] = "running"
    /\ feedState' = [feedState EXCEPT ![f] = "failed"]
    /\ fetchErrors' = Append(fetchErrors, FailureNote(f))
    /\ finished' = Append(finished, f)
    /\ UNCHANGED <<summaryVars, stepVars, page, feedItems, results, fetchRet>>

\* Lines 97-121: wg.Wait() returns, the results are combined and returned.
Combine ==
    /\ fetchRet = NotReturned
    /\ \A f \in Feeds : feedState[f] # "running"
    /\ fetchRet' = FetchResult(results, fetchErrors)
    /\ UNCHANGED <<summaryVars, stepVars, page, feedState, feedItems, results, fetchErrors,
                   finished>>

NextFetch ==
    \/ \E f \in Feeds, n \in 0..MaxItems : FeedOK(f, n)
    \/ \E f \in Feeds : FeedFail(f)
    \/ Combine

SpecFetch == Init /\ [][NextFetch]_vars

\* ================================================================ claims
Returns(c) == pc[c] = "read" /\ pc'[c] = "idle"
StaleContent == <<hist.goodMD, Render(hist.goodMD), hist.failErr>>
NeverSucceeded == hist.okTrigger = NoTime

C3_TotalFailureIsError ==
    (fetchRet.returned /\ NumFeeds >= 1 /\ \A f \in Feeds : feedState[f] = "failed")
        => (fetchRet.err # NoErr /\ fetchRet.md = <<>>)

\* C4, as claimed: while one caller is executing the fetcher, every other
\* caller that is about to take the shared lock (for its staleness check or its
\* final read) can take it without the fetch finishing first.
C4_OthersNotBlockedByFetch ==
    \A c, d \in Callers :
        (c # d /\ pc[c] = "fetching" /\ pc[d] \in {"rlock", "rlock2"})
            => ENABLED (RLock(d) \/ RLock2(d))

\* C4, amended: while one caller is executing the fetcher it holds
\* summaryMutex exclusively: no other caller holds the lock, and every other
\* caller inside getLatestNewsSummary stands before a lock operation (RLock of
\* the staleness check, Lock, RLock of the final read) that it cannot complete
\* until the fetch has finished and the lock is released.
C4_FetchBlocksOtherCallers ==
    \A c \in Callers :
        pc[c] = "fetching" =>
            /\ writer = {c}
            /\ readers = {}
            /\ \A d \in Callers \ {c} :
                  /\ pc[d] \in {"idle", "rlock", "lock", "rlock2"}
                  /\ ~ ENABLED (RLock(d) \/ LockCall(d) \/ RLock2(d))

C4_Witness ==
    \E c, d \in Callers :
        c # d /\ pc[c] = "fetching" /\ pc[d] = "rlock2" /\ now > call[c].fetchAt

\* C5: after a call that invoked the fetcher at clock value t0 and whose
\* refresh succeeded, no invocation of the fetcher is decided at a clock value
\* below t0 + cacheTTL (the time of a call being the clock value its staleness
\* test reads).
C5_NoFetchBeforeTTL ==
    \A c \in Callers :
        (pc[c] = "fetching" /\ ~ NeverSucceeded)
            => call[c].fetchAt >= hist.okTrigger + cacheTTL

\* A call that started after a successful refresh has taken the fast path
\* before t0 + cacheTTL.
C5_Witness ==
    \E c \in Callers :
        /\ pc[c] = "rlock2" /\ ~ needsUpdate[c] /\ ~ call[c].refreshed
        /\ hist.last = "ok" /\ now < hist.okTrigger + cacheTTL

\* C6, as claimed: after a refresh triggered at t0 that succeeded, and no
\* other refresh since, a call made later than t0 + cacheTTL invokes the
\* fetcher, however long that refresh took: such a call never gets past its
\* staleness tests without fetching.
C6_FetchAfterTTLFromTrigger ==
    \A c \in Callers :
        call[c].lateStart
            => pc[c] \in {"rlock", "check", "lock", "lockwait", "recheck", "fetching"}

\* C6, amended: after a refresh that succeeded and completed at t1 (the value
\* written to lastSummaryUpdateTime), and no other refresh since, a call whose
\* staleness check reads a clock value of t1 + cacheTTL or later invokes the
\* fetcher.
C6_FetchAfterTTLFromCompletion ==
    \A c \in Callers :
        call[c].lateCheck => pc[c] \in {"lock", "lockwait", "recheck", "fetching"}

C6_Witness ==
    \E c \in Callers :
        call[c].lateCheck /\ pc[c] = "fetching" /\ hist.done > hist.okTrigger

\* C7: at most one caller at a time is between the invocation of the fetcher
\* and the write of the cache variables.
C7_NoOverlappingRefresh ==
    Cardinality({c \in Callers : Fetching(c)}) <= 1

\* One caller is fetching while another, which also found the snapshot stale,
\* waits for the write lock.
C7_Witness ==
    \E c, d \in Callers :
        c # d /\ pc[c] = "fetching" /\ pc[d] = "lock" /\ needsUpdate[d]

\* C8: when a refresh succeeded earlier and the latest refresh failed, a call
\* that returns before any later refresh returns the Markdown and HTML of the
\* earlier success together with the error of the failed refresh.
C8_StaleServesThroughError ==
    [][\A c \in Callers :
          (Returns(c) /\ hist.last = "fail" /\ ~ NeverSucceeded)
              => ret'[c] = StaleContent]_vars

C8_Witness ==
    \E c \in Callers :
        /\ pc[c] = "idle" /\ hist.last = "fail" /\ ~ NeverSucceeded
        /\ ret[c] = StaleContent /\ ret[c][1] \in Contents /\ ret[c][3] = ErrFetch

\* C9: after a success followed by a failed refresh that completed at tf, a
\* call made after tf and returning before tf + cacheTTL returns the retained
\* content with the error and has made no fetcher call; the next invocation of
\* the fetcher happens at tf + cacheTTL or later.
C9_BackoffAfterFailedRefresh ==
    [][\A c \in Callers :
          (hist.last = "fail" /\ ~ NeverSucceeded) =>
              /\ (Returns(c) /\ ~ call[c].refreshed /\ now < hist.done + cacheTTL)
                     => (ret'[c] = StaleContent /\ ~ call[c].fetched)
              /\ (pc[c] = "recheck" /\ pc'[c] = "fetching")
                     => now >= hist.done + cacheTTL]_vars

\* A call made one tick after the failed refresh is about to return.
C9_Witness ==
    \E c \in Callers :
        /\ pc[c] = "read" /\ ~ call[c].refreshed /\ ~ call[c].fetched
        /\ hist.last = "fail" /\ ~ NeverSucceeded
        /\ hist.done < now /\ now < hist.done + cacheTTL

\* C10: a call that returns while no refresh has ever succeeded returns empty
\* content; with a non-nil error if a refresh attempt has failed, and with a
\* nil error only if no attempt has been made at all.
C10_NoContentBeforeFirstSuccess ==
    [][\A c \in Callers :
          (Returns(c) /\ NeverSucceeded) =>
              /\ ret'[c][1] = "" /\ ret'[c][2] = ""
              /\ hist.last = "fail" => ret'[c][3] # NoErr
              /\ ret'[c][3] = NoErr => hist.last = "none"]_vars

C10_Witness ==
    \E c \in Callers :
        pc[c] = "idle" /\ NeverSucceeded /\ ret[c] = <<"", "", ErrFetch>>

\* C11: whenever a caller holds the read lock, cachedSummaryHTML is the
\* rendering of cachedSummaryMD (both of one successful fetch, or both empty);
\* and the triple a call has returned is what the three cache variables held
\* at one instant, the instant its final read lock was granted.
C11_SnapshotConsistentAndAtomic ==
    /\ readers # {} => cachedSummaryHTML = Render(cachedSummaryMD)
    /\ \A c \in Callers : (pc[c] = "idle" /\ ret[c] # NoRet) => ret[c] = snap[c]

\* One caller has returned the text of a refresh while a later refresh with
\* another text is half written.
C11_Witness ==
    \E c, d \in Callers :
        /\ pc[c] = "idle" /\ ret[c][1] \in Contents /\ ret[c] = snap[c]
        /\ pc[d] = "storeHTML" /\ cachedSummaryMD # ret[c][1]
        /\ cachedSummaryHTML = ret[c][2]

\* C12: whenever no refresh is in progress, summaryFetchError is non-nil
\* exactly when the refresh attempt that wrote the current value of
\* lastSummaryUpdateTime failed; after a successful attempt it is nil.
C12_ErrorTracksLatestAttempt ==
    (\A c \in Callers : ~ Fetching(c)) =>
        /\ hist.last # "none" => lastSummaryUpdateTime = hist.done
        /\ summaryFetchError # NoErr <=> hist.last = "fail"
        /\ hist.last = "fail" => summaryFetchError = hist.failErr

\* A success after an earlier failure has cleared the error.
C12_Witness ==
    /\ \A c \in Callers : ~ Fetching(c)
    /\ hist.last = "ok" /\ hist.failErr # NoErr /\ summaryFetchError = NoErr
    /\ lastSummaryUpdateTime = hist.done

\* C13: under fair scheduling and a terminating fetcher every call of
\* getLatestNewsSummary eventually returns (with its triple); and in no
\* reachable state are all callers inside the function blocked on
\* summaryMutex: some caller inside it can always take its next step.
C13_EveryCallReturns ==
    /\ \A c \in Callers :
          (pc[c] # "idle") ~> (pc[c] = "idle" /\ ret[c] # NoRet)
    /\ []((\E c \in Callers : pc[c] # "idle")
              => \E c \in Callers :
                    ENABLED (RLock(c) \/ Check(c) \/ LockCall(c) \/ LockAcquire(c)
                             \/ Recheck(c) \/ FetchReturn(c) \/ Unlock(c)
                             \/ RLock2(c) \/ Return(c)))

\* Every caller has returned from a call that overlapped a refresh attempt.
C13_Witness ==
    /\ hist.last # "none"
    /\ \A c \in Callers : pc[c] = "idle" /\ ret[c] # NoRet

\* C14: every step that writes lastSummaryUpdateTime stores a value greater
\* than or equal to the value it replaces (the clock itself never runs
\* backwards).
C14_UpdateTimeMonotonic ==
    [][lastSummaryUpdateTime' >= lastSummaryUpdateTime]_vars

\* The stamp of a failed attempt has replaced the stamp of an earlier success.
C14_Witness ==
    /\ hist.last = "fail" /\ ~ NeverSucceeded
    /\ lastSummaryUpdateTime = hist.done /\ hist.done > hist.okTrigger

\* The text holds the lines of part as one contiguous block.
ContainsBlock(text, part) ==
    \E k \in 0..(Len(text) - Len(part)) :
        \A i \in 1..Len(part) : text[k + i] = part[i]

\* Number of lines of the text equal to the given line.
Occurrences(text, line) == Cardinality({i \in 1..Len(text) : text[i] = line})

\* C15: when at least one feed succeeds and at least one fails in one call of
\* fetchAndSummarizeNews, the call returns a nil error and a text that contains
\* the section of every successful feed and exactly one failure note for every
\* failed feed.
C15_PartialFailureFolded ==
    (/\ fetchRet.returned
     /\ \E f \in Feeds : feedState[f] = "ok"
     /\ \E f \in Feeds : feedState[f] = "failed")
        => /\ fetchRet.err = NoErr
           /\ \A f \in Feeds :
                 /\ feedState[f] = "ok"
                       => ContainsBlock(fetchRet.md, Section(f, feedItems[f]))
                 /\ feedState[f] = "failed"
                       => Occurrences(fetchRet.md, FailureNote(f)) = 1

\* One feed with more items than fit succeeded, two others failed, and the
\* call has returned.
C15_Witness ==
    /\ fetchRet.returned /\ fetchRet.err = NoErr
    /\ \E f \in Feeds : feedState[f] = "ok" /\ feedItems[f] > maxItemsPerFeed
    /\ Len(fetchErrors) >= 2

\* The lines of the text that belong to feed sections.
SectionLines(text) ==
    {i \in 1..Len(text) : text[i].kind \in {"heading", "item", "blank"}}

\* C20: in the text fetchAndSummarizeNews returns, whatever the order in
\* which the goroutines finished, the sections follow the order of rssFeeds
\* without interleaving, a feed that succeeded has exactly one section and a
\* feed that failed has none.
C20_SectionsInFeedOrder ==
    (fetchRet.returned /\ fetchRet.err = NoErr) =>
        /\ \A f \in Feeds :
              Occurrences(fetchRet.md, Line("heading", f, 0))
                  = IF feedState[f] = "ok" THEN 1 ELSE 0
        /\ \A i, j \in SectionLines(fetchRet.md) :
              i < j => /\ fetchRet.md[i].feed <= fetchRet.md[j].feed
                       /\ fetchRet.md[j].kind = "heading"
                              => fetchRet.md[i].feed < fetchRet.md[j].feed

\* Every feed succeeded, the goroutines finished in the reverse of the
\* rssFeeds order, and the call has returned.
C20_Witness ==
    /\ fetchRet.returned
    /\ \A f \in Feeds : feedState[f] = "ok"
    /\ \A k \in 1..NumFeeds : finished[k] = NumFeeds + 1 - k

\* C16: the step in which the fetcher returns an error inside
\* getLatestNewsSummary leaves cachedSummaryMD and cachedSummaryHTML as they
\* were, sets summaryFetchError to that error and lastSummaryUpdateTime to
\* the current time, and touches nothing else but the caller's position.
C16_FailedRefreshFrame ==
    [][\A c \in Callers :
          (pc[c] = "fetching" /\ pc'[c] = "unlock" /\ hist'.last = "fail") =>
              /\ cachedSummaryMD' = cachedSummaryMD
              /\ cachedSummaryHTML' = cachedSummaryHTML
              /\ summaryFetchError' = hist'.failErr
              /\ summaryFetchError' # NoErr
              /\ lastSummaryUpdateTime' = now
              /\ UNCHANGED <<lockVars, needsUpdate, ret, now>>]_vars

\* A refresh has just failed, later than the stamp it replaced, and the
\* content of the earlier success is still in place.
C16_Witness ==
    \E c \in Callers :
        /\ pc[c] = "unlock" /\ hist.last = "fail" /\ hist.done = now
        /\ cachedSummaryMD \in Contents
        /\ cachedSummaryHTML = Render(cachedSummaryMD)
        /\ summaryFetchError = ErrFetch
        /\ lastSummaryUpdateTime = now /\ now >= cacheTTL

\* The snapshot is fresh: it holds content younger than cacheTTL.
FreshNow == cachedSummaryMD # "" /\ now - lastSummaryUpdateTime < cacheTTL

\* C17: a call that meets a fresh snapshot at its staleness check goes
\* straight to the final read, and a call that meets a fresh snapshot at the
\* re-check under the write lock releases the lock; neither invokes the
\* fetcher, and no step other than the return of the fetcher to the call that
\* invoked it changes the four cache variables.
C17_NoFetchNoChange ==
    [][/\ cacheVars' # cacheVars
              => \E c \in Callers : pc[c] = "fetching" /\ pc'[c] = "unlock"
       /\ \A c \in Callers :
             /\ (FreshNow /\ pc[c] = "check" /\ pc'[c] # "check")
                    => (pc'[c] = "rlock2" /\ ~ call'[c].fetched)
             /\ (FreshNow /\ pc[c] = "recheck" /\ pc'[c] # "recheck")
                    => (pc'[c] = "unlock" /\ ~ call'[c].fetched)]_vars

\* A call that found the snapshot stale at line 129 has found it fresh at
\* line 135, after another caller's refresh, and is about to unlock.
C17_Witness ==
    \E c \in Callers :
        /\ pc[c] = "unlock" /\ needsUpdate[c]
        /\ ~ call[c].fetched /\ call[c].refreshed /\ FreshNow

\* C18: with the successful refreshes numbered in the order they complete,
\* hist.stored is the number of the refresh whose text the cache holds.  No
\* step lowers it, and the text a call returns is the text the cache holds at
\* the instant of its final read; hence the number of the text a call returns
\* is at least the number stored at any earlier instant: when the call
\* started, or when an earlier call returned.
C18_ContentNeverGoesBack ==
    [][/\ hist'.stored >= hist.stored
       /\ \A c \in Callers :
             Returns(c) =>
                 /\ ret'[c][1] = cachedSummaryMD
                 /\ hist.stored = 0 <=> ret'[c][1] = ""
                 /\ hist.stored >= 1 => ret'[c][1] = hist.goodMD]_vars

\* A call during which a refresh failed, after an earlier refresh had
\* succeeded, is about to return the text of that success.
C18_Witness ==
    \E c \in Callers :
        /\ pc[c] = "read" /\ call[c].refreshed /\ hist.last = "fail"
        /\ hist.stored >= 1 /\ cachedSummaryMD = hist.goodMD

\* C19: the response of timeHandler embeds the fixed notice exactly when
\* getLatestNewsSummary returned a non-nil error together with empty HTML; in
\* every other case (an error with non-empty HTML, or no error) it embeds the
\* returned HTML unchanged.
C19_HandlerFallback ==
    \A c \in Callers :
        page[c] # NoPage =>
            /\ page[c] = Notice <=> (ret[c][3] # NoErr /\ ret[c][2] = "")
            /\ page[c] # Notice => page[c] = ret[c][2]

\* One response carries the notice, another carries stale HTML that came
\* with an error.
C19_Witness ==
    \E c, d \in Callers :
        /\ page[c] = Notice
        /\ page[d] = ret[d][2] /\ ret[d][2] # "" /\ ret[d][3] # NoErr

\* C21: once a refresh has succeeded (and so stored non-empty text),
\* cachedSummaryMD and cachedSummaryHTML are non-empty in every later state,
\* whatever refreshes, successful or failed, follow.
C21_NoReturnToEmpty ==
    hist.count >= 1 => (cachedSummaryMD # "" /\ cachedSummaryHTML # "")

\* The clock has run out after a success followed by a failed refresh; the
\* text of the success and its rendering are in place.
C21_Witness ==
    /\ hist.count >= 1 /\ hist.last = "fail" /\ now = MaxTime
    /\ cachedSummaryMD = hist.goodMD /\ cachedSummaryMD \in Contents
    /\ cachedSummaryHTML = Render(hist.goodMD)

\* The caller is in its final read, between the RLock of line 166 and the
\* return.
InFinalRead(c) == pc[c] \in {"test", "readMD", "readHTML", "readErr"}

\* C22: the snapshot a call returns carries a lastSummaryUpdateTime later
\* than the call's start minus cacheTTL: during the final read of every call,
\* the latest refresh attempt completed less than a full cacheTTL before the
\* call started (or after it).
C22_BoundedStaleness ==
    \A c \in Callers :
        InFinalRead(c) => lastSummaryUpdateTime > startedAt[c] - cacheTTL

\* A call that started one tick short of the expiry of the snapshot, and
\* found it fresh, is in its final read after the clock has moved on.
C22_Witness ==
    \E c \in Callers :
        /\ InFinalRead(c) /\ ~ needsUpdate[c]
        /\ lastSummaryUpdateTime = startedAt[c] - cacheTTL + 1
        /\ now > startedAt[c]

====
